---- MODULE Spec2Model ----
(***************************************************************************)
(* swcat: a catalog of Software and their Releases.  The model covers the  *)
(* nine request handlers of swcat/app.py over the two tables declared in   *)
(* swcat/db/models.py, reached through the SQLite engine of                *)
(* swcat/db/__init__.py.  A table is the set of its rows; each handler is  *)
(* one action (one request, one session, one commit).                      *)
(***************************************************************************)
EXTENDS Integers, FiniteSets, Sequences, TLC

(* ------------------------------ bounds -------------------------------- *)

\* How many identifiers uuid4 hands out in a run (software and releases).
MaxUuid == 4

(* --------------------------- input domains ---------------------------- *)

\* Python's None for an optional string field.
None == "None"

\* Validated SoftwareCreate payloads (swcat/models.py SoftwareBase).
\* A payload with only the required fields, and one with every field set.
DisplayNames == {"ab", "cd"}

SoftwareCreate ==
    [code_url : {None}, description : {None}, display_name : DisplayNames,
     maintainer_name : {None}, maintainer_email : {"a@b.com"}]
    \cup
    [code_url : {"https://x.io/"}, description : {"a tool"}, display_name : DisplayNames,
     maintainer_name : {"Ann"}, maintainer_email : {"c@d.org"}]

\* Validated ReleaseCreate payloads (swcat/models.py ReleaseBase).
ReleaseCreate == [version : {"1.0"}, release_date : {"2024-01-01"}]

\* Values of the display_name query parameter: absent, empty, held, unheld.
DisplayNameFilters == {None, "", "zz"} \cup DisplayNames

\* The path segment "-" of list_releases; identifiers are positive, so the
\* sentinel is a value no identifier takes.
Wildcard == -1

\* A request that carries no identifier / payload in some position.
NoId == -2
NoSoftwareCreate ==
    [code_url |-> None, description |-> None, display_name |-> None,
     maintainer_name |-> None, maintainer_email |-> None]
NoReleaseCreate == [version |-> None, release_date |-> None]

(* ------------------------------- state -------------------------------- *)

VARIABLES
    software,          \* rows of table "software"
    release,           \* rows of table "release"
    next_software_id,  \* uuid4: the next fresh software_id
    next_release_id,   \* uuid4: the next fresh release_id
    foreign_keys,      \* whether the SQLite connection enforces foreign keys
    last               \* the last request and the response it got

vars == <<software, release, next_software_id, next_release_id, foreign_keys, last>>

\* Identifiers a client can put in a path: one handed out earlier for that
\* table, or some other UUID (0), which uuid4 never produces for it.
SoftwareIdArgs == 0 .. (next_software_id - 1)
ReleaseIdArgs == 0 .. (next_release_id - 1)

\* uuid4 has identifiers left to hand out.
Uuid4Left == (next_software_id - 1) + (next_release_id - 1) < MaxUuid

(* --------------------------- data mapping ----------------------------- *)

\* db.models.Software(**values): a table model keeps the keys that are its
\* columns and drops the others; software_id comes from the default factory.
SoftwareSQL(id, values) ==
    [software_id |-> id,
     display_name |-> values.display_name,
     maintainer_name |-> values.maintainer_name,
     maintainer_email |-> values.maintainer_email]

\* models.Software(**sw_sql.model_dump()): the response model; fields the
\* row's dump does not carry take their default, None.
Software(sw_sql) ==
    [software_id |-> sw_sql.software_id,
     code_url |-> None,
     description |-> None,
     display_name |-> sw_sql.display_name,
     maintainer_name |-> sw_sql.maintainer_name,
     maintainer_email |-> sw_sql.maintainer_email]

\* db.models.Release(software_id=software_id, **values)
ReleaseSQL(id, software_id, values) ==
    [release_id |-> id,
     version |-> values.version,
     release_date |-> values.release_date,
     software_id |-> software_id]

\* models.Release(**rel_sql.model_dump())
Release(rel_sql) ==
    [release_id |-> rel_sql.release_id,
     software_id |-> rel_sql.software_id,
     version |-> rel_sql.version,
     release_date |-> rel_sql.release_date]

(* ------------------------- store constraints -------------------------- *)

\* display_name: Field(index=True, unique=True).  The commit that leaves
\* `rows` plus `row` in the table passes the unique index.
UniqueAlwaysOk(rows, row) == TRUE

UniqueOk(rows, row) ==
    \A r \in rows : r.display_name # row.display_name

\* software_id: Field(foreign_key="software.software_id").  SQLite checks the
\* constraint only on a connection with foreign keys switched on.
ForeignKeyOk(rel_sql) ==
    foreign_keys => \E s \in software : s.software_id = rel_sql.software_id

\* session.get(SoftwareSQL, software_id): the row with that primary key, or
\* None (here: the empty set).
session_get_first(software_id) ==
    IF \E s \in software : s.software_id = software_id
    THEN {s \in software : s.software_id = software_id}
    ELSE IF software = {} THEN {} ELSE {CHOOSE s \in software : TRUE}

session_get(software_id) ==
    {s \in software : s.software_id = software_id}

\* Software.releases: Relationship(cascade_delete=True).  The rows the session
\* deletes together with sw_sql.
NoCascade(sw_sql) == {}

Software_releases(sw_sql) ==
    {r \in release : r.software_id = sw_sql.software_id}

\* ondelete="CASCADE" on release.software_id, when foreign keys are enforced.
OnDeleteCascade(sw_sql) ==
    IF foreign_keys
    THEN {r \in release : r.software_id = sw_sql.software_id}
    ELSE {}

(* ----------------------------- responses ------------------------------ *)

Request(op, software_id, release_id, sw, rel, display_name) ==
    [op |-> op, software_id |-> software_id, release_id |-> release_id,
     software |-> sw, release |-> rel, display_name |-> display_name]

\* A request together with its outcome: "ok" with the returned Software and
\* Release objects, or "error" (the handler raised).
Response(req, status, softwares, releases) ==
    [op |-> req.op, software_id |-> req.software_id, release_id |-> req.release_id,
     software |-> req.software, release |-> req.release,
     display_name |-> req.display_name,
     status |-> status, softwares |-> softwares, releases |-> releases]

Ok(req, softwares, releases) == Response(req, "ok", softwares, releases)
Raise(req) == Response(req, "error", {}, {})

Init ==
    /\ software = {}
    /\ release = {}
    /\ next_software_id = 1
    /\ next_release_id = 1
    /\ foreign_keys \in BOOLEAN
    /\ last = Raise(Request("startup", NoId, NoId, NoSoftwareCreate, NoReleaseCreate, None))

(* ------------------------- Software handlers -------------------------- *)

create_software ==
    \E payload \in SoftwareCreate :
        LET req == Request("create_software", NoId, NoId, payload, NoReleaseCreate, None)
            sw_sql == SoftwareSQL(next_software_id, payload)
        IN  /\ Uuid4Left
            /\ IF UniqueOk(software, sw_sql)
               THEN /\ software' = software \cup {sw_sql}
                    /\ next_software_id' = next_software_id + 1
                    /\ last' = Ok(req, {Software(sw_sql)}, {})
               ELSE /\ last' = Raise(req)
                    /\ UNCHANGED <<software, next_software_id>>
            /\ UNCHANGED <<release, next_release_id, foreign_keys>>

\* if display_name: the filter is applied only for a truthy value, which
\* neither None nor the empty string is.
Truthy(display_name) == display_name # None /\ display_name # ""

SelectSoftware(display_name) ==
    IF Truthy(display_name)
    THEN {s \in software : s.display_name = display_name}
    ELSE software

list_softwares ==
    \E display_name \in DisplayNameFilters :
        LET req == Request("list_softwares", NoId, NoId, NoSoftwareCreate,
                           NoReleaseCreate, display_name)
            results == SelectSoftware(display_name)
        IN  /\ last' = Ok(req, {Software(sw_sql) : sw_sql \in results}, {})
            /\ UNCHANGED <<software, release, next_software_id, next_release_id, foreign_keys>>

get_software ==
    \E software_id \in SoftwareIdArgs :
        LET req == Request("get_software", software_id, NoId, NoSoftwareCreate,
                           NoReleaseCreate, None)
            found == session_get(software_id)
        IN  /\ IF found = {}
               THEN last' = Raise(req)
               ELSE last' = Ok(req, {Software(CHOOSE s \in found : TRUE)}, {})
            /\ UNCHANGED <<software, release, next_software_id, next_release_id, foreign_keys>>

\* for attr in ("display_name", "maintainer_name", "maintainer_email"):
\*     setattr(sw_sql, attr, getattr(software, attr))
SetAttrsNameOnly(sw_sql, payload) ==
    [sw_sql EXCEPT !.display_name = payload.display_name]

SetAttrs(sw_sql, payload) ==
    [sw_sql EXCEPT !.display_name = payload.display_name,
                   !.maintainer_name = payload.maintainer_name,
                   !.maintainer_email = payload.maintainer_email]

update_software ==
    \E software_id \in SoftwareIdArgs, payload \in SoftwareCreate :
        LET req == Request("update_software", software_id, NoId, payload,
                           NoReleaseCreate, None)
            found == session_get(software_id)
        IN  /\ IF found = {}
               THEN /\ last' = Raise(req)
                    /\ UNCHANGED software
               ELSE LET old == CHOOSE s \in found : TRUE
                        sw_sql == SetAttrs(old, payload)
                    IN  IF UniqueOk(software \ {old}, sw_sql)
                        THEN /\ software' = (software \ {old}) \cup {sw_sql}
                             /\ last' = Ok(req, {Software(sw_sql)}, {})
                        ELSE /\ last' = Raise(req)
                             /\ UNCHANGED software
            /\ UNCHANGED <<release, next_software_id, next_release_id, foreign_keys>>

delete_software ==
    \E software_id \in SoftwareIdArgs :
        LET req == Request("delete_software", software_id, NoId, NoSoftwareCreate,
                           NoReleaseCreate, None)
            found == session_get(software_id)
        IN  /\ IF found = {}
               THEN /\ last' = Raise(req)
                    /\ UNCHANGED <<software, release>>
               ELSE LET sw_sql == CHOOSE s \in found : TRUE
                    IN  /\ software' = software \ {sw_sql}
                        /\ release' = (release \ Software_releases(sw_sql))
                                          \ OnDeleteCascade(sw_sql)
                        /\ last' = Ok(req, {}, {})
            /\ UNCHANGED <<next_software_id, next_release_id, foreign_keys>>

(* -------------------------- Release handlers -------------------------- *)

create_release ==
    \E software_id \in SoftwareIdArgs, payload \in ReleaseCreate :
        LET req == Request("create_release", software_id, NoId, NoSoftwareCreate,
                           payload, None)
            rel_sql == ReleaseSQL(next_release_id, software_id, payload)
        IN  /\ Uuid4Left
            /\ IF ForeignKeyOk(rel_sql)
               THEN /\ release' = release \cup {rel_sql}
                    /\ next_release_id' = next_release_id + 1
                    /\ last' = Ok(req, {}, {Release(rel_sql)})
               ELSE /\ last' = Raise(req)
                    /\ UNCHANGED <<release, next_release_id>>
            /\ UNCHANGED <<software, next_software_id, foreign_keys>>

\* select(ReleaseSQL), narrowed by software_id unless the segment is "-".
SelectAllReleases(software_id) == release

SelectReleases(software_id) ==
    IF software_id # Wildcard
    THEN {r \in release : r.software_id = software_id}
    ELSE release

list_releases ==
    \E software_id \in SoftwareIdArgs \cup {Wildcard} :
        LET req == Request("list_releases", software_id, NoId, NoSoftwareCreate,
                           NoReleaseCreate, None)
            results == SelectReleases(software_id)
        IN  /\ last' = Ok(req, {}, {Release(rel_sql) : rel_sql \in results})
            /\ UNCHANGED <<software, release, next_software_id, next_release_id, foreign_keys>>

\* select(ReleaseSQL).where(release_id == ...).where(software_id == ...);
\* .one() raises unless exactly one row matches.
SelectReleaseById(software_id, release_id) ==
    {r \in release : r.release_id = release_id}

SelectRelease(software_id, release_id) ==
    {r \in release : r.release_id = release_id /\ r.software_id = software_id}

get_release ==
    \E software_id \in SoftwareIdArgs, release_id \in ReleaseIdArgs :
        LET req == Request("get_release", software_id, release_id, NoSoftwareCreate,
                           NoReleaseCreate, None)
            rows == SelectRelease(software_id, release_id)
        IN  /\ IF Cardinality(rows) = 1
               THEN last' = Ok(req, {}, {Release(CHOOSE r \in rows : TRUE)})
               ELSE last' = Raise(req)
            /\ UNCHANGED <<software, release, next_software_id, next_release_id, foreign_keys>>

delete_release ==
    \E software_id \in SoftwareIdArgs, release_id \in ReleaseIdArgs :
        LET req == Request("delete_release", software_id, release_id, NoSoftwareCreate,
                           NoReleaseCreate, None)
            rows == SelectRelease(software_id, release_id)
        IN  /\ IF Cardinality(rows) = 1
               THEN /\ release' = release \ rows
                    /\ last' = Ok(req, {}, {})
               ELSE /\ last' = Raise(req)
                    /\ UNCHANGED release
            /\ UNCHANGED <<software, next_software_id, next_release_id, foreign_keys>>

Next ==
    \/ create_software
    \/ list_softwares
    \/ get_software
    \/ update_software
    \/ delete_software
    \/ create_release
    \/ list_releases
    \/ get_release
    \/ delete_release

Spec == Init /\ [][Next]_vars

(* ------------------------------ claims -------------------------------- *)

StoreUnchanged == software' = software /\ release' = release

HasSoftware(software_id) == \E s \in software : s.software_id = software_id

\* C1: after delete_software succeeds on an existing Software, neither that
\* Software nor any Release with its software_id is stored, however many
\* Releases it owned; the Releases of other Software stay in place.
C1_DeleteSoftwareCascades ==
    [][(last'.op = "delete_software" /\ last'.status = "ok"
            /\ HasSoftware(last'.software_id))
        => /\ \A s \in software' : s.software_id # last'.software_id
           /\ \A r \in release' : r.software_id # last'.software_id
           /\ \A r \in release : r.software_id # last'.software_id => r \in release'
      ]_vars

\* A Software was deleted, Releases are gone and another Software's Release
\* is still stored.
C1_Witness ==
    /\ last.op = "delete_software" /\ last.status = "ok"
    /\ Cardinality(release) < next_release_id - 1
    /\ \E r \in release : HasSoftware(r.software_id)

\* C2: create_release under a software_id that matches no stored Software
\* fails and adds no Release row.
C2_CreateReleaseNeedsParent ==
    [][(last'.op = "create_release" /\ ~HasSoftware(last'.software_id))
        => (last'.status = "error" /\ release' = release)
      ]_vars

\* C3: no orphaned Release: every stored Release carries the software_id of
\* a stored Software.
C3_NoOrphanRelease ==
    \A r \in release : HasSoftware(r.software_id)

\* C4: display_name is unique among stored Software; create_software with a
\* held display_name and update_software towards a display_name held by a
\* different Software both fail and leave the store unchanged.
UniqueDisplayName ==
    \A s, t \in software : s.display_name = t.display_name => s = t

C4_DisplayNameUnique ==
    [][/\ UniqueDisplayName'
       /\ (last'.op = "create_software"
              /\ \E s \in software : s.display_name = last'.software.display_name)
          => (last'.status = "error" /\ StoreUnchanged)
       /\ (last'.op = "update_software"
              /\ \E s \in software : /\ s.software_id # last'.software_id
                                     /\ s.display_name = last'.software.display_name)
          => (last'.status = "error" /\ StoreUnchanged)
      ]_vars

\* create_software was refused because the display_name is already held.
C4_Witness ==
    /\ last.op = "create_software" /\ last.status = "error"
    /\ \E s \in software : s.display_name = last.software.display_name

\* C5: round trip: get_software on the software_id create_software returned
\* gives back every payload field exactly as submitted.
C5_RoundTrip ==
    [][(/\ last.op = "create_software" /\ last.status = "ok"
        /\ last'.op = "get_software"
        /\ \E c \in last.softwares : c.software_id = last'.software_id)
        => /\ last'.status = "ok"
           /\ \A g \in last'.softwares :
                 /\ g.code_url = last.software.code_url
                 /\ g.description = last.software.description
                 /\ g.display_name = last.software.display_name
                 /\ g.maintainer_name = last.software.maintainer_name
                 /\ g.maintainer_email = last.software.maintainer_email
      ]_vars

\* C6: update_software on an existing id either fails (the display_name is
\* held by another Software) and changes nothing, or overwrites exactly
\* display_name, maintainer_name and maintainer_email of that record with the
\* payload's values; software_id, code_url and description of the record, all
\* other Software and all Releases are unchanged.
C6_UpdateFrame ==
    [][(last'.op = "update_software" /\ HasSoftware(last'.software_id))
        => /\ release' = release
           /\ \E old \in software, new \in software' :
                 /\ old.software_id = last'.software_id
                 /\ new.software_id = last'.software_id
                 /\ software' \ {new} = software \ {old}
                 /\ IF last'.status = "ok"
                    THEN /\ new.display_name = last'.software.display_name
                         /\ new.maintainer_name = last'.software.maintainer_name
                         /\ new.maintainer_email = last'.software.maintainer_email
                         /\ \A u \in last'.softwares :
                               /\ u.software_id = old.software_id
                               /\ u.code_url = Software(old).code_url
                               /\ u.description = Software(old).description
                    ELSE /\ new = old
                         /\ \E s \in software \ {old} :
                               s.display_name = last'.software.display_name
      ]_vars

\* An update went through while a second Software and a Release are stored.
C6_Witness ==
    /\ last.op = "update_software" /\ last.status = "ok"
    /\ Cardinality(software) = 2
    /\ release # {}
    /\ \E s \in software : /\ s.software_id = last.software_id
                           /\ s.maintainer_email = last.software.maintainer_email

C8_ReleaseTwoColumnMatch ==
    [][last'.op \in {"get_release", "delete_release"}
        => LET match == {r \in release : /\ r.release_id = last'.release_id
                                         /\ r.software_id = last'.software_id}
           IN  /\ last'.status = "ok" <=> match # {}
               /\ match = {} => StoreUnchanged
               /\ (last'.op = "get_release" /\ match # {})
                     => \A g \in last'.releases : g.release_id = last'.release_id
               /\ (last'.op = "delete_release" /\ match # {})
                     => /\ software' = software
                        /\ release' = {r \in release : r.release_id # last'.release_id}
      ]_vars

\* delete_release was refused for a Release stored under another software_id.
C8_Witness ==
    /\ last.op = "delete_release" /\ last.status = "error"
    /\ \E r \in release : /\ r.release_id = last.release_id
                          /\ r.software_id # last.software_id

\* C9: list_softwares with a display_name filter returns exactly the stored
\* Software with that display_name, for every filter string; without the
\* filter it returns every stored Software.
C9_ListSoftwares ==
    last.op = "list_softwares"
        => /\ last.status = "ok"
           /\ \A s \in software :
                 (\E r \in last.softwares : r.software_id = s.software_id)
                    <=> (last.display_name = None
                            \/ s.display_name = last.display_name)
           /\ \A r \in last.softwares : HasSoftware(r.software_id)

\* C10: get_software, update_software and delete_software on a software_id
\* that matches no stored Software fail and leave every record unchanged.
C10_MissingSoftwareFails ==
    [][(last'.op \in {"get_software", "update_software", "delete_software"}
            /\ ~HasSoftware(last'.software_id))
        => (last'.status = "error" /\ StoreUnchanged)
      ]_vars

\* delete_software was refused for an unknown software_id while Software and
\* Releases are stored.
C10_Witness ==
    /\ last.op = "delete_software" /\ last.status = "error"
    /\ software # {}
    /\ release # {}

====
